---- MODULE Spec2Model ----
(***************************************************************************)
(* Model of the model registry of the comprehensive-test project:          *)
(*   app/services/model_storage.py  (class ModelStorage)                   *)
(*   app/services/ml_predictor.py   (class MLPredictor, its cache of       *)
(*                                   loaded models, its storage calls)     *)
(* The durable state is the storage directory: the registry document       *)
(* models.json and one artifact file <model_id>.pkl per saved model.       *)
(***************************************************************************)
EXTENDS Integers, Sequences, FiniteSets, TLC

\* ---------------------------------------------------------------- bounds

\* Number of distinct identifiers uuid4() can hand out in one run.
MaxIds == 2
\* Largest value datetime.now() reaches in one run.
MaxClock == 1
\* delete_model calls recorded per model_id.
MaxDeleteCalls == 2
\* Records of a registry document list_models is applied to.
MaxRecords == 3

\* ---------------------------------------------------------------- inputs

Ids == 1..MaxIds

\* Model objects handed to save_model. Lambda stands for an object pickle
\* cannot serialise (pickle.dump raises after the file was opened).
ModelA == [kind |-> "object", name |-> "A"]

ModelB == [kind |-> "object", name |-> "B"]

Lambda == [kind |-> "lambda"]

Picklable == {ModelA, ModelB}

Models == Picklable \cup {Lambda}

\* Python strings are sequences of characters. The model types callers use
\* ("LR" stands for a type name with capitals, such as "Linear Regression"), and
\* the default "Unknown" of metadata.get("model_type", "Unknown").
LR == <<"L", "R">>

Unknown == <<"U", "n", "k", "n", "o", "w", "n">>

\* A metadata argument of save_model: a dict that has the keys model_type and
\* training_data or lacks them; json_ok tells whether every value in it is
\* JSON-serialisable (json.dump raises TypeError on the first value that is not).
Metadata ==
    {[model_type |-> LR, training_data |-> <<1>>, json_ok |-> TRUE],
     [json_ok |-> TRUE],
     [model_type |-> Unknown, training_data |-> <<>>, json_ok |-> TRUE],
     [model_type |-> Unknown, training_data |-> <<>>, json_ok |-> FALSE]}

\* metadata.get(key, default)
metadata_get(metadata, key, default) ==
    IF key \in DOMAIN metadata THEN metadata[key] ELSE default

\* The (model, metadata) arguments save_model is called with.
SaveArgs ==
    {a \in Models \X Metadata :
        \/ a[1] = ModelA /\ metadata_get(a[2], "model_type", Unknown) = LR
        \/ a[1] = ModelB /\ metadata_get(a[2], "model_type", Unknown) = Unknown
        \/ a[1] = Lambda /\ metadata_get(a[2], "model_type", Unknown) = LR}

\* The arguments save_model raises on no step with: a model pickle can serialise
\* and metadata json can.
GoodArgs == {a \in SaveArgs : a[1] \in Picklable /\ a[2].json_ok}

\* A model_id no save_model call ever returned.
NoSuchId == 0

\* Python's None
None == [kind |-> "None"]

\* What a call gives back: a returned value or a raised exception.
Return(v) == [raised |-> FALSE, val |-> v]

Raise(msg) == [raised |-> TRUE, val |-> msg]

\* File contents: no such file, and a file cut short by a failed write.
NoFile == [kind |-> "absent"]

Partial == [kind |-> "partial"]

\* The state of <storage_dir>/models.json when storage_dir itself does not exist.
NoDir == [kind |-> "no directory"]

\* I/O faults of the environment, by the step that fails.
NoFault == "none"
SaveFaults == {"open_artifact", "write_artifact", "open_registry", "write_registry"}
DeleteFaults == {"remove", "open_registry", "write_registry"}

LoadFaults == {"read_artifact"}

\* ---------------------------------------------------------------- state

VARIABLES
    models_file,     \* content of <storage_dir>/models.json
    artifact_files,  \* content of every <storage_dir>/<model_id>.pkl
    issued,          \* identifiers uuid4() has returned so far
    clock,           \* last value datetime.now() returned
    last,            \* the most recent call and what it returned or raised
    returned,        \* history: the identifiers save_model has returned, in order
    saved_model,     \* history: model_id -> the object save_model stored under it,
                     \*          until delete_model(model_id) is called
    delete_log       \* history: for a model_id save_model returned, the results of
                     \*          the delete_model(model_id) calls, in order (interleaved
                     \*          callers: <<TRUE>> once one of the calls returned True)
VARIABLES
    loaded_models    \* MLPredictor.loaded_models: model_id -> the object load_model returned
VARIABLES
    pc,              \* interleaved callers: the statement each caller is at
    local            \* interleaved callers: the local variables of the call in progress

callervars == <<pc, local>>

vars == <<models_file, artifact_files, issued, clock, last, returned, saved_model, delete_log,
          loaded_models, pc, local>>

\* The callers of the interleaved specification.
Callers == {"c1", "c2"}

\* ---------------------------------------------------------------- helpers

\* os.path.join(self.storage_dir, f"{model_id}.pkl")
FilePath(model_id) == <<"./models", model_id, ".pkl">>

Paths == {FilePath(i) : i \in Ids}

\* pickle.dump / pickle.load
pickle_dump(model) == [kind |-> "pkl", obj |-> model]

pickle_load(content) == IF content.kind = "pkl" THEN Return(content.obj) ELSE Raise("unpickling")

\* json.dump(models, f, indent=2) / json.load(f)
json_dump(models) == [kind |-> "json", body |-> models]

\* str(n) for a one-digit number
Digit(n) == <<"0", "1", "2", "3", "4", "5", "6", "7", "8", "9">>[n + 1]

\* json.dumps(data, sort_keys=True, default=str) for a list of one-digit
\* numbers: "[1, 2]"
RECURSIVE json_items(_)
json_items(data) ==
    IF data = <<>> THEN <<>>
    ELSE IF Len(data) = 1 THEN <<Digit(data[1])>>
    ELSE <<Digit(data[1]), ",", " ">> \o json_items(Tail(data))

json_dumps(data) == <<"[">> \o json_items(data) \o <<"]">>

\* hashlib.md5(s.encode()).hexdigest(): never empty, and one digest per string
\* (no two of the strings hashed here collide); "#" followed by the string
\* stands for the 32 hexadecimal digits
md5_hexdigest(str) == <<"#">> \o str

\* Variant of _hash_data: empty data is hashed like any other.
_hash_data_no_sentinel(data) == md5_hexdigest(json_dumps(data))

\* ModelStorage._hash_data: "" when the data is empty (not data)
_hash_data(data) == IF data = <<>> THEN <<>> ELSE md5_hexdigest(json_dumps(data))

\* datetime.now().isoformat() for the clock value now, counted in half seconds:
\* the seconds on two digits, then the microseconds, which isoformat leaves out
\* when they are zero ("...:01" and "...:01.500000"). The date, hour and minute
\* are the same fixed-width prefix of every timestamp and are left out.
isoformat(now) ==
    <<Digit((now \div 2) \div 10), Digit((now \div 2) % 10)>> \o
    (IF now % 2 = 0 THEN <<>> ELSE <<".", "5", "0", "0", "0", "0", "0">>)

\* ModelStorage.load_model_registry: FileNotFoundError and JSONDecodeError give []
load_model_registry(doc) == IF doc.kind = "json" THEN doc.body ELSE <<>>

\* next((m for m in models if m["model_id"] == model_id), None)
FindRecord(models, model_id) ==
    IF \E k \in 1..Len(models) : models[k].model_id = model_id
    THEN models[CHOOSE k \in 1..Len(models) :
                    /\ models[k].model_id = model_id
                    /\ \A j \in 1..(k - 1) : models[j].model_id # model_id]
    ELSE None

\* [m for m in models if m["model_id"] != model_id]
RECURSIVE RemoveId(_, _)
RemoveId(models, model_id) ==
    IF models = <<>> THEN <<>>
    ELSE IF Head(models).model_id = model_id
         THEN RemoveId(Tail(models), model_id)
         ELSE <<Head(models)>> \o RemoveId(Tail(models), model_id)

\* The identifiers save_model has returned.
ReturnedIds == {returned[k] : k \in 1..Len(returned)}

\* The locals of a caller that is in no call.
\* (missed is history: the identifiers other callers' save_model calls added to
\* the document after this call read it)
NoCall == [id |-> NoSuchId, model |-> None, model_metadata |-> None, models |-> <<>>,
           missed |-> {}]

\* ModelStorage.ensure_storage_dir, run by the constructor on an empty directory
Init ==
    /\ models_file = json_dump(<<>>)
    /\ artifact_files = [p \in Paths |-> NoFile]
    /\ issued = {}
    /\ clock = 0
    /\ last = [op |-> "init", id |-> 0, ret |-> Return(None), fault |-> NoFault]
    /\ returned = <<>>
    /\ saved_model = [i \in Ids \cup {NoSuchId} |-> None]
    /\ delete_log = [i \in Ids \cup {NoSuchId} |-> <<>>]
    /\ loaded_models = <<>>
    /\ pc = [c \in Callers |-> "idle"]
    /\ local = [c \in Callers |-> NoCall]

\* ---------------------------------------------------------------- save_model

\* Variant of uuid4: an identifier that may have been returned before.
uuid4_reused == Ids

\* str(uuid.uuid4()): a fresh 128-bit random identifier, never one returned before
\* (identifiers are opaque and only compared for equality: the unused ones are
\* interchangeable, and the least of them stands for the one drawn)
uuid4 == {i \in Ids \ issued : \A j \in Ids \ issued : i <= j}

\* Variant of SaveOutcome: the registry document is rewritten before the artifact
\* file is written.
SaveOutcome_registry_first(model, model_metadata, json_ok, fault) ==
    LET path == model_metadata.file_path
        models == Append(load_model_registry(models_file), model_metadata)
    IN  IF fault = "open_registry"
        THEN [files |-> artifact_files, doc |-> models_file,
              failed |-> "open_registry", ret |-> Raise("Failed to save model")]
        ELSE IF ~json_ok \/ fault = "write_registry"
        THEN [files |-> artifact_files, doc |-> Partial,
              failed |-> "write_registry", ret |-> Raise("Failed to save model")]
        ELSE IF fault = "open_artifact"
        THEN [files |-> artifact_files, doc |-> json_dump(models),
              failed |-> "open_artifact", ret |-> Raise("Failed to save model")]
        ELSE IF model \notin Picklable \/ fault = "write_artifact"
        THEN [files |-> [artifact_files EXCEPT ![path] = Partial],
              doc |-> json_dump(models),
              failed |-> "write_artifact", ret |-> Raise("Failed to save model")]
        ELSE [files |-> [artifact_files EXCEPT ![path] = pickle_dump(model)],
              doc |-> json_dump(models), failed |-> NoFault,
              ret |-> Return(model_metadata.model_id)]

\* Variant of SaveOutcome: a record whose training_data_hash is already in the
\* registry replaces the record that has it.
SaveOutcome_deduplicates(model, model_metadata, json_ok, fault) ==
    LET path == model_metadata.file_path
        kept == SelectSeq(load_model_registry(models_file),
                          LAMBDA m : m.training_data_hash # model_metadata.training_data_hash)
    IN  IF model \notin Picklable \/ ~json_ok \/ fault # NoFault
        THEN [files |-> artifact_files, doc |-> models_file,
              failed |-> "open_artifact", ret |-> Raise("Failed to save model")]
        ELSE [files |-> [artifact_files EXCEPT ![path] = pickle_dump(model)],
              doc |-> json_dump(Append(kept, model_metadata)), failed |-> NoFault,
              ret |-> Return(model_metadata.model_id)]

\* Variant of SaveOutcome: the new record is put at the head of the document.
SaveOutcome_prepends(model, model_metadata, json_ok, fault) ==
    LET path == model_metadata.file_path
        models == <<model_metadata>> \o load_model_registry(models_file)
    IN  IF model \notin Picklable \/ ~json_ok \/ fault # NoFault
        THEN [files |-> artifact_files, doc |-> models_file,
              failed |-> "open_artifact", ret |-> Raise("Failed to save model")]
        ELSE [files |-> [artifact_files EXCEPT ![path] = pickle_dump(model)],
              doc |-> json_dump(models), failed |-> NoFault,
              ret |-> Return(model_metadata.model_id)]

\* The try block of save_model on the current directory: the artifact write,
\* then the read-append-rewrite of the registry document. Gives the directory
\* it leaves, the step that failed and what the call returns (the except
\* branch re-raises).
SaveOutcome(model, model_metadata, json_ok, fault) ==
    LET path == model_metadata.file_path
        models == Append(load_model_registry(models_file), model_metadata)
    IN  IF fault = "open_artifact"
        THEN [files |-> artifact_files, doc |-> models_file,
              failed |-> "open_artifact", ret |-> Raise("Failed to save model")]
        ELSE IF model \notin Picklable \/ fault = "write_artifact"
        THEN [files |-> [artifact_files EXCEPT ![path] = Partial],
              doc |-> models_file,
              failed |-> "write_artifact", ret |-> Raise("Failed to save model")]
        ELSE LET written == [artifact_files EXCEPT ![path] = pickle_dump(model)]
             IN  IF fault = "open_registry"
                 THEN [files |-> written, doc |-> models_file,
                       failed |-> "open_registry", ret |-> Raise("Failed to save model")]
                 ELSE IF ~json_ok \/ fault = "write_registry"
                 THEN [files |-> written, doc |-> Partial,
                       failed |-> "write_registry", ret |-> Raise("Failed to save model")]
                 ELSE [files |-> written, doc |-> json_dump(models), failed |-> NoFault,
                       ret |-> Return(model_metadata.model_id)]

\* ModelStorage.save_model(model, metadata)
save_model(model, metadata, fault) ==
    \E model_id \in uuid4, now \in clock..MaxClock :
        LET model_metadata ==
                [model_id |-> model_id,
                 created_at |-> isoformat(now),
                 model_type |-> metadata_get(metadata, "model_type", Unknown),
                 training_data_hash |->
                     _hash_data(metadata_get(metadata, "training_data", <<>>)),
                 file_path |-> FilePath(model_id)]
            r == SaveOutcome(model, model_metadata, metadata.json_ok, fault)
        IN  /\ artifact_files' = r.files
            /\ models_file' = r.doc
            /\ issued' = issued \cup {model_id}
            /\ clock' = now
            /\ last' = [op |-> "save", id |-> model_id, ret |-> r.ret, fault |-> r.failed]
            /\ returned' = IF r.ret.raised THEN returned ELSE Append(returned, model_id)
            /\ saved_model' = IF r.ret.raised THEN saved_model
                              ELSE [saved_model EXCEPT ![model_id] = model]
            /\ UNCHANGED <<delete_log, loaded_models, callervars>>

\* ---------------------------------------------------------------- lookups

\* Variant of get_model_metadata: the model_id is not compared, the first record
\* of the document is returned.
get_model_metadata_first(model_id) ==
    IF load_model_registry(models_file) = <<>> THEN None
    ELSE Head(load_model_registry(models_file))

\* ModelStorage.get_model_metadata(model_id)
get_model_metadata(model_id) == FindRecord(load_model_registry(models_file), model_id)

\* Variant of load_model: an unknown model_id gives None, as get_model_metadata does.
load_model_returns_none(model_id) ==
    LET model_metadata == FindRecord(load_model_registry(models_file), model_id)
    IN  IF model_metadata = None THEN Return(None)
        ELSE IF pickle_load(artifact_files[model_metadata.file_path]).raised
             THEN Raise("Failed to load model")
             ELSE pickle_load(artifact_files[model_metadata.file_path])

\* Variant of LoadOutcome: a record whose artifact file cannot be read is reported
\* as a model that was not found.
LoadOutcome_missing_is_not_found(model_id, fault) ==
    LET model_metadata == FindRecord(load_model_registry(models_file), model_id)
    IN  IF model_metadata = None THEN Raise("not found")
        ELSE IF fault # NoFault \/ pickle_load(artifact_files[model_metadata.file_path]).raised
             THEN Raise("not found")
             ELSE pickle_load(artifact_files[model_metadata.file_path])

\* The body of load_model: "Model with ID ... not found" when the lookup finds no
\* record (line 91), "Failed to load model ..." when open or pickle.load raises
\* (line 97), the unpickled object otherwise.
LoadOutcome(model_id, fault) ==
    LET model_metadata == FindRecord(load_model_registry(models_file), model_id)
    IN  IF model_metadata = None THEN Raise("not found")
        ELSE IF fault # NoFault \/ pickle_load(artifact_files[model_metadata.file_path]).raised
             THEN Raise("Failed to load model")
             ELSE pickle_load(artifact_files[model_metadata.file_path])

\* ModelStorage.load_model(model_id): the object, or the exception raised
load_model(model_id) == LoadOutcome(model_id, NoFault)

LoadModel(model_id) ==
    /\ last' = [op |-> "load", id |-> model_id, ret |-> load_model(model_id), fault |-> NoFault]
    /\ UNCHANGED <<models_file, artifact_files, issued, clock, returned, saved_model,
                   delete_log, loaded_models, callervars>>

\* load_model(model_id) where opening or unpickling the artifact file fails
LoadModelFault(model_id, fault) ==
    /\ last' = [op |-> "load", id |-> model_id, ret |-> LoadOutcome(model_id, fault),
                fault |-> IF get_model_metadata(model_id) = None THEN NoFault ELSE fault]
    /\ UNCHANGED <<models_file, artifact_files, issued, clock, returned, saved_model,
                   delete_log, loaded_models, callervars>>

GetModelMetadata(model_id) ==
    /\ last' = [op |-> "get", id |-> model_id,
                ret |-> Return(get_model_metadata(model_id)), fault |-> NoFault]
    /\ UNCHANGED <<models_file, artifact_files, issued, clock, returned, saved_model,
                   delete_log, loaded_models, callervars>>

\* ---------------------------------------------------------------- list_models

\* str.lower(), on the letters the model types are written with
lower_char(c) ==
    CASE c = "L" -> "l"
      [] c = "R" -> "r"
      [] c = "U" -> "u"
      [] OTHER -> c

lower(str) == [k \in 1..Len(str) |-> lower_char(str[k])]

\* ord(c), for the characters of a timestamp
ord(c) ==
    CASE c = "." -> 46
      [] c = "0" -> 48
      [] c = "1" -> 49
      [] c = "2" -> 50
      [] c = "3" -> 51
      [] c = "4" -> 52
      [] c = "5" -> 53
      [] c = "6" -> 54
      [] c = "7" -> 55
      [] c = "8" -> 56
      [] c = "9" -> 57

\* a < b on Python strings: the first differing character decides, and a proper
\* prefix is smaller
RECURSIVE str_less(_, _)
str_less(a, b) ==
    IF b = <<>> THEN FALSE
    ELSE IF a = <<>> THEN TRUE
    ELSE IF Head(a) = Head(b) THEN str_less(Tail(a), Tail(b))
    ELSE ord(Head(a)) < ord(Head(b))

\* The model_type argument of list_models: None when the caller gives none.
NoFilter == [given |-> FALSE, val |-> <<>>]

Filter(str) == [given |-> TRUE, val |-> str]

\* if model_type: is false for None and for the empty string
Truthy(model_type) == model_type.given /\ model_type.val # <<>>

\* [m for m in models if m["model_type"].lower() == model_type.lower()]
RECURSIVE FilterType(_, _)
FilterType(models, str) ==
    IF models = <<>> THEN <<>>
    ELSE IF lower(Head(models).model_type) = lower(str)
         THEN <<Head(models)>> \o FilterType(Tail(models), str)
         ELSE FilterType(Tail(models), str)

\* Variant of InsertNewestFirst: the record goes behind the records that are
\* older, too (ascending order).
RECURSIVE InsertNewestFirst_ascending(_, _)
InsertNewestFirst_ascending(sorted, m) ==
    IF sorted = <<>> THEN <<m>>
    ELSE IF str_less(m.created_at, Head(sorted).created_at)
         THEN <<m>> \o sorted
         ELSE <<Head(sorted)>> \o InsertNewestFirst_ascending(Tail(sorted), m)

\* One record put into a list sorted by created_at, newest first: behind every
\* record whose created_at is not smaller (list.sort is stable, and with
\* reverse=True records of equal keys keep their order).
RECURSIVE InsertNewestFirst(_, _)
InsertNewestFirst(sorted, m) ==
    IF sorted = <<>> THEN <<m>>
    ELSE IF str_less(Head(sorted).created_at, m.created_at)
         THEN <<m>> \o sorted
         ELSE <<Head(sorted)>> \o InsertNewestFirst(Tail(sorted), m)

\* models.sort(key=lambda x: x["created_at"], reverse=True)
RECURSIVE SortNewestFirst(_)
SortNewestFirst(models) ==
    IF models = <<>> THEN <<>>
    ELSE InsertNewestFirst(SortNewestFirst(SubSeq(models, 1, Len(models) - 1)),
                           models[Len(models)])

\* ModelStorage.list_models(model_type)
list_models(model_type) ==
    LET models == load_model_registry(models_file)
    IN  SortNewestFirst(IF Truthy(model_type) THEN FilterType(models, model_type.val)
                        ELSE models)

ListModels(model_type) ==
    /\ last' = [op |-> "list", id |-> NoSuchId, ret |-> Return(list_models(model_type)),
                fault |-> NoFault]
    /\ UNCHANGED <<models_file, artifact_files, issued, clock, returned, saved_model,
                   delete_log, loaded_models, callervars>>

\* ---------------------------------------------------------------- delete_model

\* Variant of DeleteOutcome: the artifact file is removed and the registry
\* document is left as it was.
DeleteOutcome_keeps_record(model_id, fault) ==
    LET model_metadata == FindRecord(load_model_registry(models_file), model_id)
    IN  IF model_metadata = None
        THEN [files |-> artifact_files, doc |-> models_file,
              failed |-> NoFault, ret |-> FALSE]
        ELSE [files |-> [artifact_files EXCEPT ![model_metadata.file_path] = NoFile],
              doc |-> models_file, failed |-> NoFault, ret |-> TRUE]

\* Variant of DeleteOutcome: the record is removed and the artifact file is left.
DeleteOutcome_keeps_file(model_id, fault) ==
    LET models == load_model_registry(models_file)
    IN  IF FindRecord(models, model_id) = None
        THEN [files |-> artifact_files, doc |-> models_file,
              failed |-> NoFault, ret |-> FALSE]
        ELSE [files |-> artifact_files, doc |-> json_dump(RemoveId(models, model_id)),
              failed |-> NoFault, ret |-> TRUE]

\* Variant of DeleteOutcome: the records behind the deleted one leave the
\* document with it.
DeleteOutcome_truncates(model_id, fault) ==
    LET models == load_model_registry(models_file)
        model_metadata == FindRecord(models, model_id)
        k == CHOOSE j \in 1..Len(models) : models[j].model_id = model_id
    IN  IF model_metadata = None
        THEN [files |-> artifact_files, doc |-> models_file,
              failed |-> NoFault, ret |-> FALSE]
        ELSE [files |-> [artifact_files EXCEPT ![model_metadata.file_path] = NoFile],
              doc |-> json_dump(SubSeq(models, 1, k - 1)), failed |-> NoFault, ret |-> TRUE]

\* Variant of DeleteOutcome: os.remove is called whether or not the artifact
\* file exists, and raises when it does not.
DeleteOutcome_missing_file_fails(model_id, fault) ==
    LET models == load_model_registry(models_file)
        model_metadata == FindRecord(models, model_id)
    IN  IF model_metadata = None
        THEN [files |-> artifact_files, doc |-> models_file,
              failed |-> NoFault, ret |-> FALSE]
        ELSE IF fault = "remove" \/ artifact_files[model_metadata.file_path] = NoFile
        THEN [files |-> artifact_files, doc |-> models_file,
              failed |-> "remove", ret |-> FALSE]
        ELSE LET removed == [artifact_files EXCEPT ![model_metadata.file_path] = NoFile]
             IN  IF fault = "open_registry"
                 THEN [files |-> removed, doc |-> models_file,
                       failed |-> "open_registry", ret |-> FALSE]
                 ELSE IF fault = "write_registry"
                 THEN [files |-> removed, doc |-> Partial,
                       failed |-> "write_registry", ret |-> FALSE]
                 ELSE [files |-> removed, failed |-> NoFault,
                       doc |-> json_dump(RemoveId(models, model_id)),
                       ret |-> TRUE]

\* delete_model on the current directory: the directory it leaves, the step
\* that failed and the boolean it returns (the except branch returns False).
\* os.remove is called, and can fail, only when os.path.exists finds the file.
DeleteOutcome(model_id, fault) ==
    LET models == load_model_registry(models_file)
        model_metadata == FindRecord(models, model_id)
    IN  IF model_metadata = None
        THEN [files |-> artifact_files, doc |-> models_file,
              failed |-> NoFault, ret |-> FALSE]
        ELSE IF fault = "remove" /\ artifact_files[model_metadata.file_path] # NoFile
        THEN [files |-> artifact_files, doc |-> models_file,
              failed |-> "remove", ret |-> FALSE]
        ELSE LET removed == [artifact_files EXCEPT ![model_metadata.file_path] = NoFile]
             IN  IF fault = "open_registry"
                 THEN [files |-> removed, doc |-> models_file,
                       failed |-> "open_registry", ret |-> FALSE]
                 ELSE IF fault = "write_registry"
                 THEN [files |-> removed, doc |-> Partial,
                       failed |-> "write_registry", ret |-> FALSE]
                 ELSE [files |-> removed, failed |-> NoFault,
                       doc |-> json_dump(RemoveId(models, model_id)),
                       ret |-> TRUE]

\* ModelStorage.delete_model(model_id)
delete_model(model_id, fault) ==
    /\ Len(delete_log[model_id]) < MaxDeleteCalls
    /\ LET r == DeleteOutcome(model_id, fault)
       IN  /\ artifact_files' = r.files
           /\ models_file' = r.doc
           /\ last' = [op |-> "delete", id |-> model_id, ret |-> Return(r.ret), fault |-> r.failed]
           /\ delete_log' = IF model_id \in ReturnedIds
                            THEN [delete_log EXCEPT ![model_id] = Append(@, r.ret)]
                            ELSE delete_log
    /\ saved_model' = [saved_model EXCEPT ![model_id] = None]
    /\ UNCHANGED <<issued, clock, returned, loaded_models, callervars>>

\* ---------------------------------------------------------------- specifications

\* Calls made one after the other, every file operation succeeding.
SaveModel == \E a \in SaveArgs : save_model(a[1], a[2], NoFault)

\* The identifiers a caller passes: those save_model generated, and an unknown one.
CallIds == issued \cup {NoSuchId}

DeleteModel == \E model_id \in CallIds : delete_model(model_id, NoFault)

Load == \E model_id \in CallIds : LoadModel(model_id)

GetMetadata == \E model_id \in CallIds : GetModelMetadata(model_id)

Next == SaveModel \/ DeleteModel \/ Load \/ GetMetadata

Spec == Init /\ [][Next]_vars

\* The same calls, where a file operation of save_model or delete_model may fail.
SaveModelFault ==
    \E a \in SaveArgs, fault \in SaveFaults : save_model(a[1], a[2], fault)

DeleteModelFault ==
    \E model_id \in CallIds, fault \in DeleteFaults : delete_model(model_id, fault)

\* (the lookups write no file and are left out of this specification)
NextFault == SaveModel \/ DeleteModel \/ SaveModelFault \/ DeleteModelFault

SpecFault == Init /\ [][NextFault]_vars

\* Instances constructed on a storage directory, one after the other, and their
\* calls; delete_model may fail once the artifact file is removed, and load_model
\* on reading the artifact file.
InitDir ==
    /\ models_file \in {NoDir, NoFile}
    /\ artifact_files = [p \in Paths |-> NoFile]
    /\ issued = {}
    /\ clock = 0
    /\ last = [op |-> "start", id |-> 0, ret |-> Return(None), fault |-> NoFault]
    /\ returned = <<>>
    /\ saved_model = [i \in Ids \cup {NoSuchId} |-> None]
    /\ delete_log = [i \in Ids \cup {NoSuchId} |-> <<>>]
    /\ loaded_models = <<>>
    /\ pc = [c \in Callers |-> "idle"]
    /\ local = [c \in Callers |-> NoCall]

\* Variant of ensure_storage_dir: the empty document is written whether or not
\* models.json exists.
ensure_storage_dir_always_writes(doc) == json_dump(<<>>)

\* ModelStorage.ensure_storage_dir: os.makedirs when the directory is absent, then
\* json.dump([], f) when models.json is
ensure_storage_dir(doc) ==
    LET made == IF doc = NoDir THEN NoFile ELSE doc
    IN  IF made = NoFile THEN json_dump(<<>>) ELSE made

\* ModelStorage(storage_dir)
Construct ==
    /\ models_file' = ensure_storage_dir(models_file)
    /\ last' = [op |-> "init", id |-> 0, ret |-> Return(None), fault |-> NoFault]
    /\ UNCHANGED <<artifact_files, issued, clock, returned, saved_model, delete_log,
                   loaded_models, callervars>>

\* save_model with arguments it does not raise on
SaveGood == \E a \in GoodArgs : save_model(a[1], a[2], NoFault)

\* delete_model failing after it has removed the artifact file
DeleteCutShort ==
    \E model_id \in CallIds, fault \in DeleteFaults \ {"remove"} : delete_model(model_id, fault)

LoadFault == \E model_id \in CallIds, fault \in LoadFaults : LoadModelFault(model_id, fault)

\* The calls go through an instance: none before the first construction.
Constructed == last.op # "start"

NextDir ==
    \/ Construct
    \/ Constructed /\ SaveGood
    \/ Constructed /\ DeleteModel
    \/ Constructed /\ DeleteCutShort
    \/ Constructed /\ Load
    \/ Constructed /\ LoadFault

SpecDir == InitDir /\ [][NextDir]_vars

\* list_models applied to a registry document. The documents are those the
\* save_model calls of one or several callers leave: the records sit in the
\* order their rewrites finished, which need not be the order of created_at.
ListIds == 1..MaxRecords

\* Three creation times t1 < t2 < t3 (records may share one).
ListTimes == {0, 1, 2}

ListTypes == {LR, <<"l", "r">>, Unknown}

ListRecord(model_id, now, model_type) ==
    [model_id |-> model_id,
     created_at |-> isoformat(now),
     model_type |-> model_type,
     training_data_hash |-> _hash_data(<<>>),
     file_path |-> FilePath(model_id)]

ListDocs ==
    UNION {{[k \in 1..n |-> ListRecord(k, f[k][1], f[k][2])] :
               f \in [1..n -> ListTimes \X ListTypes]} : n \in 0..MaxRecords}

InitList ==
    /\ \E models \in ListDocs :
           /\ models_file = json_dump(models)
           /\ artifact_files = [p \in {FilePath(i) : i \in ListIds} |->
                                    IF p[2] <= Len(models) THEN pickle_dump(ModelA)
                                    ELSE NoFile]
           /\ issued = 1..Len(models)
           /\ returned = [k \in 1..Len(models) |-> k]
           /\ saved_model = [i \in ListIds \cup {NoSuchId} |->
                                 IF i \in 1..Len(models) THEN ModelA ELSE None]
    /\ clock \in ListTimes /\ \A t \in ListTimes : t <= clock
    /\ last = [op |-> "init", id |-> 0, ret |-> Return(None), fault |-> NoFault]
    /\ delete_log = [i \in ListIds \cup {NoSuchId} |-> <<>>]
    /\ loaded_models = <<>>
    /\ pc = [c \in Callers |-> "idle"]
    /\ local = [c \in Callers |-> NoCall]

\* The model_type arguments list_models is called with.
Filters == {NoFilter, Filter(<<>>), Filter(<<"l", "R">>), Filter(Unknown)}

NextList == \E model_type \in Filters : ListModels(model_type)

SpecList == InitList /\ [][NextList]_vars

\* ---------------------------------------------------------------- computation functions

\* A computation function is its try block, as the statements that end a call
\* early in program order, and its except handler. A check that raises stands
\* for the inputs the statement raises on (error: the exception), one that
\* returns for the inputs its condition rejects (error: the message returned);
\* always marks a statement that raises on every input.
Raises(exception) == [kind |-> "raise", error |-> exception, always |-> FALSE]

AlwaysRaises(exception) == [kind |-> "raise", error |-> exception, always |-> TRUE]

Returns(message) == [kind |-> "return", error |-> message, always |-> FALSE]

\* financial_analyzer.py
calculate_loan_amortization ==
    [handler |-> "Calculation failed",
     checks |-> <<Raises("AttributeError"),       \* loan_data.get, not a mapping
                  Raises("ValueError"),           \* float(), int() of a non-number
                  Returns("Invalid loan parameters"),
                  Raises("OverflowError")>>]      \* (1 + monthly_rate)**num_payments

analyze_investment_portfolio ==
    [handler |-> "Portfolio analysis failed",
     checks |-> <<Raises("AttributeError"),       \* portfolio_data.get
                  Returns("No investments provided"),
                  Raises("TypeError")>>]          \* sum over values that are not numbers

\* advanced_financial_calculator.py
analyze_custom_loan ==
    [handler |-> "Calculation error",
     checks |-> <<Raises("TypeError"),            \* json.dumps(loan_data)
                  Raises("AttributeError"),       \* loan_data.get
                  Raises("ValueError"),           \* float(), int()
                  Returns("Principal amount must be greater than 0"),
                  Returns("Interest rate cannot be negative"),
                  Returns("Loan term must be greater than 0 years"),
                  Returns("Extra payment cannot be negative"),
                  Raises("OverflowError")>>]

calculate_loan_comparison ==
    [handler |-> "Comparison error",
     checks |-> <<Returns("At least 2 loans required for comparison"),
                  Returns("Could not analyze enough loans for comparison")>>]

\* ml_analyzer.py
train_simple_regression ==
    [handler |-> "Regression training failed",
     checks |-> <<Raises("AttributeError"),       \* training_data.get
                  Raises("TypeError"),            \* len() of x or y
                  Returns("Invalid training data"),
                  Raises("ZeroDivisionError")>>]  \* all x equal

classify_data_points ==
    [handler |-> "Classification failed",
     checks |-> <<Raises("AttributeError"),       \* classification_data.get
                  Returns("No data points provided"),
                  Returns("Data points must have at least 2 dimensions"),
                  Raises("TypeError")>>]          \* coordinates that are not numbers

\* sample_data_generator.py
generate_sample_data ==
    [handler |-> "Sample data generation failed",
     checks |-> <<Raises("AttributeError"),       \* model_metadata.get
                  Raises("TypeError")>>]          \* range(feature_count)

\* ml_predictor.py (self.model_storage is the module model_storage, which has
\* no save_model and no get_model_metadata: the attribute lookup raises)
train_and_save_regression_model ==
    [handler |-> "Training failed",
     checks |-> <<Raises("ImportError"),          \* pandas, sklearn
                  Raises("TypeError"),            \* for item in training_data
                  Returns("Need at least 5 data points for training"),
                  Raises("ValueError"),           \* np.array, fit
                  AlwaysRaises("AttributeError")>>]

predict_with_saved_model ==
    [handler |-> "Prediction failed",
     checks |-> <<AlwaysRaises("AttributeError"),
                  Returns("Model with ID not found"),
                  Raises("Failed to load model"),
                  Raises("IndexError"),           \* X_new.shape[1]
                  Returns("Expected features")>>]

Functions ==
    [calculate_loan_amortization |-> calculate_loan_amortization,
     analyze_investment_portfolio |-> analyze_investment_portfolio,
     analyze_custom_loan |-> analyze_custom_loan,
     calculate_loan_comparison |-> calculate_loan_comparison,
     train_simple_regression |-> train_simple_regression,
     classify_data_points |-> classify_data_points,
     generate_sample_data |-> generate_sample_data,
     train_and_save_regression_model |-> train_and_save_regression_model,
     predict_with_saved_model |-> predict_with_saved_model]

\* The inputs of function fn, each named by the first check it stops at; 0 is an
\* input that passes every check.
Inputs(fn) ==
    LET checks == Functions[fn].checks
    IN  {k \in 0..Len(checks) :
            \A j \in 1..Len(checks) : (checks[j].always /\ j # k) => k \in 1..(j - 1)}

\* Variant of ExceptHandler: the handler raises again, as save_model's does.
ExceptHandler_raises(fn, exception) == Raise(<<Functions[fn].handler, exception>>)

\* Variant of ExceptHandler: an ImportError is not caught.
ExceptHandler_import_error_escapes(fn, exception) ==
    IF exception = "ImportError"
    THEN Raise(<<"Required library not available", exception>>)
    ELSE Return([success |-> FALSE, error |-> <<Functions[fn].handler, exception>>])

\* except ImportError as e / except Exception as e: the failure mapping, with
\* error the handler's text followed by str(e)
ExceptHandler(fn, exception) ==
    IF fn = "train_and_save_regression_model" /\ exception = "ImportError"
    THEN Return([success |-> FALSE,
                 error |-> <<"Required library not available", exception>>,
                 suggestion |-> "Install scikit-learn and pandas"])
    ELSE Return([success |-> FALSE, error |-> <<Functions[fn].handler, exception>>])

\* The host application, which calls one function at a time.
Host == "c1"

\* The call enters the try block.
ComputeCall(fn, input) ==
    /\ pc[Host] = "idle"
    /\ pc' = [pc EXCEPT ![Host] = "try"]
    /\ local' = [local EXCEPT ![Host] = [fn |-> fn, input |-> input, result |-> Return(None)]]
    /\ UNCHANGED <<models_file, artifact_files, issued, clock, last, returned, saved_model,
                   delete_log, loaded_models>>

\* The try block runs to the statement that ends it: a return of a failure
\* mapping, the return of the result, or a statement that raises.
ComputeTry ==
    /\ pc[Host] = "try"
    /\ LET checks == Functions[local[Host].fn].checks
           k == local[Host].input
       IN  IF k = 0
           THEN /\ pc' = [pc EXCEPT ![Host] = "return"]
                /\ local' = [local EXCEPT ![Host].result = Return([success |-> TRUE])]
           ELSE IF checks[k].kind = "return"
           THEN /\ pc' = [pc EXCEPT ![Host] = "return"]
                /\ local' = [local EXCEPT ![Host].result =
                                 Return([success |-> FALSE, error |-> <<checks[k].error>>])]
           ELSE /\ pc' = [pc EXCEPT ![Host] = "except"]
                /\ local' = [local EXCEPT ![Host].result = Raise(checks[k].error)]
    /\ UNCHANGED <<models_file, artifact_files, issued, clock, last, returned, saved_model,
                   delete_log, loaded_models>>

\* The except handler catches what the try block raised.
ComputeExcept ==
    /\ pc[Host] = "except"
    /\ pc' = [pc EXCEPT ![Host] = "return"]
    /\ local' = [local EXCEPT ![Host].result =
                     ExceptHandler(local[Host].fn, local[Host].result.val)]
    /\ UNCHANGED <<models_file, artifact_files, issued, clock, last, returned, saved_model,
                   delete_log, loaded_models>>

\* The call ends: the caller has the mapping, or the exception that escaped.
ComputeReturn ==
    /\ pc[Host] = "return"
    /\ last' = [op |-> local[Host].fn, id |-> local[Host].input,
                ret |-> local[Host].result, fault |-> NoFault]
    /\ pc' = [pc EXCEPT ![Host] = "idle"]
    /\ local' = [local EXCEPT ![Host] = NoCall]
    /\ UNCHANGED <<models_file, artifact_files, issued, clock, returned, saved_model,
                   delete_log, loaded_models>>

Compute == \E fn \in DOMAIN Functions : \E input \in Inputs(fn) : ComputeCall(fn, input)

NextCompute == Compute \/ ComputeTry \/ ComputeExcept \/ ComputeReturn

SpecCompute == Init /\ [][NextCompute]_vars

\* ---------------------------------------------------------------- MLPredictor

\* The names the module model_storage binds. ml_predictor.py imports the module
\* (line 9) and MLPredictor.__init__ stores the module itself in
\* self.model_storage (line 14): an attribute of self.model_storage is one of
\* these names, and any other raises AttributeError.
ModuleAttributes ==
    {"os", "json", "pickle", "uuid", "datetime", "hashlib", "ModelStorage", "model_storage"}

\* The new_data argument of predict_with_saved_model: rows of as many features
\* as the model has, rows of another number of features, and a flat list
\* (X_new.shape[1] raises IndexError).
NewData == {"rows", "wide", "flat"}

\* The training_data argument of train_and_save_regression_model, as the number
\* of its items that have both 'features' and 'target'.
SampleCounts == {0, 4, 5}

\* Variant of Evict: the entry of model_id is kept, with None for the object.
Evict_tombstone(model_id) ==
    [i \in DOMAIN loaded_models \cup {model_id} |->
        IF i = model_id THEN None ELSE loaded_models[i]]

\* if model_id in self.loaded_models: del self.loaded_models[model_id]
Evict(model_id) == [i \in DOMAIN loaded_models \ {model_id} |-> loaded_models[i]]

\* The try block of predict_with_saved_model: the cache it leaves and what the
\* call returns.
PredictOutcome(model_id, new_data) ==
    LET fn == "predict_with_saved_model"
        model_metadata == get_model_metadata(model_id)
        cached == model_id \in DOMAIN loaded_models
        loaded == load_model(model_id)
        cache == IF cached THEN loaded_models
                 ELSE [i \in DOMAIN loaded_models \cup {model_id} |->
                          IF i = model_id THEN loaded.val ELSE loaded_models[i]]
    IN  IF "get_model_metadata" \notin ModuleAttributes
        THEN [cache |-> loaded_models, ret |-> ExceptHandler(fn, "AttributeError")]
        ELSE IF model_metadata = None
        THEN [cache |-> loaded_models,
              ret |-> Return([success |-> FALSE, error |-> <<"Model with ID not found">>])]
        ELSE IF ~cached /\ loaded.raised
        THEN [cache |-> loaded_models, ret |-> ExceptHandler(fn, loaded.val)]
        ELSE IF new_data = "flat"
        THEN [cache |-> cache, ret |-> ExceptHandler(fn, "IndexError")]
        ELSE IF new_data = "wide"
        THEN [cache |-> cache,
              ret |-> Return([success |-> FALSE, error |-> <<"Expected features">>])]
        ELSE [cache |-> cache,
              ret |-> Return([success |-> TRUE, model_id |-> model_id,
                              model_type |-> model_metadata.model_type])]

\* MLPredictor.predict_with_saved_model(model_id, new_data)
PredictWithSavedModel(model_id, new_data) ==
    LET r == PredictOutcome(model_id, new_data)
    IN  /\ loaded_models' = r.cache
        /\ last' = [op |-> "predict_with_saved_model", id |-> model_id, ret |-> r.ret,
                    fault |-> NoFault]
        /\ UNCHANGED <<models_file, artifact_files, issued, clock, returned, saved_model,
                       delete_log, callervars>>

\* MLPredictor.delete_saved_model(model_id): the cache entry goes first, then the
\* storage is called
DeleteSavedModel(model_id) ==
    /\ loaded_models' = Evict(model_id)
    /\ IF "delete_model" \notin ModuleAttributes
       THEN /\ last' = [op |-> "delete_saved_model", id |-> model_id, fault |-> NoFault,
                        ret |-> Return([success |-> FALSE,
                                        error |-> <<"Failed to delete model",
                                                    "AttributeError">>])]
            /\ UNCHANGED <<models_file, artifact_files, saved_model, delete_log>>
       ELSE LET r == DeleteOutcome(model_id, NoFault)
            IN  /\ Len(delete_log[model_id]) < MaxDeleteCalls
                /\ artifact_files' = r.files
                /\ models_file' = r.doc
                /\ delete_log' = IF model_id \in ReturnedIds
                                 THEN [delete_log EXCEPT ![model_id] = Append(@, r.ret)]
                                 ELSE delete_log
                /\ saved_model' = [saved_model EXCEPT ![model_id] = None]
                /\ last' = [op |-> "delete_saved_model", id |-> model_id, fault |-> NoFault,
                            ret |-> Return([success |-> r.ret, model_id |-> model_id])]
    /\ UNCHANGED <<issued, clock, returned, callervars>>

\* MLPredictor.get_saved_models()
GetSavedModels ==
    /\ last' = [op |-> "get_saved_models", id |-> 0, fault |-> NoFault,
                ret |-> IF "list_models" \notin ModuleAttributes
                        THEN Return([success |-> FALSE,
                                     error |-> <<"Failed to load models", "AttributeError">>])
                        ELSE Return([success |-> TRUE, models |-> list_models(NoFilter),
                                     count |-> Len(list_models(NoFilter))])]
    /\ UNCHANGED <<models_file, artifact_files, issued, clock, returned, saved_model,
                   delete_log, loaded_models, callervars>>

\* MLPredictor.train_and_save_regression_model(training_data): installed tells
\* whether pandas and scikit-learn can be imported. The model package is saved
\* with model_type "Linear Regression" and the first ten training samples.
TrainAndSaveRegressionModel(samples, installed) ==
    LET fn == "train_and_save_regression_model"
        saves == installed /\ samples >= 5 /\ "save_model" \in ModuleAttributes
    IN  /\ IF ~saves
           THEN /\ last' = [op |-> fn, id |-> samples, fault |-> NoFault,
                            ret |-> IF ~installed THEN ExceptHandler(fn, "ImportError")
                                    ELSE IF samples < 5
                                    THEN Return([success |-> FALSE,
                                                 error |-> <<"Need at least 5 data points">>])
                                    ELSE ExceptHandler(fn, "AttributeError")]
                /\ UNCHANGED <<models_file, artifact_files, issued, clock, returned,
                               saved_model>>
           ELSE \E model_id \in uuid4, now \in clock..MaxClock :
                    LET model_metadata ==
                            [model_id |-> model_id,
                             created_at |-> isoformat(now),
                             model_type |-> LR,
                             training_data_hash |-> _hash_data(<<1>>),
                             file_path |-> FilePath(model_id)]
                        r == SaveOutcome(ModelA, model_metadata, TRUE, NoFault)
                    IN  /\ artifact_files' = r.files
                        /\ models_file' = r.doc
                        /\ issued' = issued \cup {model_id}
                        /\ clock' = now
                        /\ returned' = Append(returned, model_id)
                        /\ saved_model' = [saved_model EXCEPT ![model_id] = ModelA]
                        /\ last' = [op |-> fn, id |-> samples, fault |-> NoFault,
                                    ret |-> Return([success |-> TRUE, model_id |-> model_id])]
        /\ UNCHANGED <<delete_log, loaded_models, callervars>>

\* One predictor, and callers that use the storage instance directly.
Predict ==
    \E model_id \in CallIds, new_data \in NewData : PredictWithSavedModel(model_id, new_data)

DeleteSaved == \E model_id \in CallIds : DeleteSavedModel(model_id)

TrainAndSave ==
    \E samples \in SampleCounts, installed \in BOOLEAN :
        TrainAndSaveRegressionModel(samples, installed)

NextPredictor ==
    SaveGood \/ DeleteModel \/ Predict \/ DeleteSaved \/ GetSavedModels \/ TrainAndSave

SpecPredictor == Init /\ [][NextPredictor]_vars

\* ---------------------------------------------------------------- interleaved callers

\* Two callers on the same storage directory, no lock: each file operation of
\* save_model and delete_model is one step, and steps of the two callers interleave.
\* Every file operation succeeds.

\* The statements after a call has read the registry document and before its
\* rewrite is complete.
Rewriting == {"save_open", "save_dump", "delete_remove", "delete_open", "delete_dump"}

\* save_model lines 41-63: the identifier, the record, the artifact write
SaveArtifact(c, model, metadata) ==
    /\ pc[c] = "idle"
    /\ \E model_id \in uuid4, now \in clock..MaxClock :
        /\ issued' = issued \cup {model_id}
        /\ clock' = now
        /\ artifact_files' = [artifact_files EXCEPT ![FilePath(model_id)] = pickle_dump(model)]
        /\ local' = [local EXCEPT ![c] =
               [id |-> model_id, model |-> model,
                model_metadata |->
                    [model_id |-> model_id,
                     created_at |-> isoformat(now),
                     model_type |-> metadata_get(metadata, "model_type", Unknown),
                     training_data_hash |->
                         _hash_data(metadata_get(metadata, "training_data", <<>>)),
                     file_path |-> FilePath(model_id)],
                models |-> <<>>, missed |-> {}]]
    /\ pc' = [pc EXCEPT ![c] = "save_read"]
    /\ UNCHANGED <<models_file, last, returned, saved_model, delete_log, loaded_models>>

\* save_model lines 66-67: models = self.load_model_registry(); models.append(...)
SaveRead(c) ==
    /\ pc[c] = "save_read"
    /\ local' = [local EXCEPT ![c].models =
                    Append(load_model_registry(models_file), local[c].model_metadata)]
    /\ pc' = [pc EXCEPT ![c] = "save_open"]
    /\ UNCHANGED <<models_file, artifact_files, issued, clock,
                   last, returned, saved_model, delete_log, loaded_models>>

\* Variant of SaveOpen: the document is read again right before it is rewritten.
SaveOpen_reread(c) ==
    /\ pc[c] = "save_open"
    /\ local' = [local EXCEPT ![c].models =
                    Append(load_model_registry(models_file), local[c].model_metadata)]
    /\ models_file' = Partial
    /\ pc' = [pc EXCEPT ![c] = "save_dump"]
    /\ UNCHANGED <<artifact_files, issued, clock, last, returned, saved_model, delete_log,
                   loaded_models>>

\* save_model line 69: open(self.models_file, 'w') truncates the document
SaveOpen(c) ==
    /\ pc[c] = "save_open"
    /\ models_file' = Partial
    /\ pc' = [pc EXCEPT ![c] = "save_dump"]
    /\ UNCHANGED <<local, artifact_files, issued, clock,
                   last, returned, saved_model, delete_log, loaded_models>>

\* save_model lines 70-72: json.dump(models, f, indent=2); return model_id
SaveDump(c) ==
    /\ pc[c] = "save_dump"
    /\ models_file' = json_dump(local[c].models)
    /\ returned' = Append(returned, local[c].id)
    /\ saved_model' = [saved_model EXCEPT ![local[c].id] = local[c].model]
    /\ pc' = [pc EXCEPT ![c] = "idle"]
    /\ local' = [d \in Callers |->
                    IF d = c THEN NoCall
                    ELSE IF pc[d] \in Rewriting
                         THEN [local[d] EXCEPT !.missed = @ \cup {local[c].id}]
                         ELSE local[d]]
    /\ UNCHANGED <<artifact_files, issued, clock, last, delete_log, loaded_models>>

\* delete_model lines 141-145: read the registry, look the record up
DeleteRead(c, model_id) ==
    /\ pc[c] = "idle"
    /\ LET models == load_model_registry(models_file)
           model_metadata == FindRecord(models, model_id)
       IN  IF model_metadata = None
           THEN UNCHANGED <<pc, local>>
           ELSE /\ local' = [local EXCEPT ![c] =
                       [id |-> model_id, model |-> None, model_metadata |-> model_metadata,
                        models |-> models, missed |-> {}]]
                /\ pc' = [pc EXCEPT ![c] = "delete_remove"]
    /\ saved_model' = [saved_model EXCEPT ![model_id] = None]
    /\ UNCHANGED <<models_file, artifact_files, issued, clock, last, returned, delete_log,
                   loaded_models>>

\* delete_model lines 149-150: remove the artifact file if it exists
DeleteRemove(c) ==
    /\ pc[c] = "delete_remove"
    /\ artifact_files' = [artifact_files EXCEPT ![local[c].model_metadata.file_path] = NoFile]
    /\ pc' = [pc EXCEPT ![c] = "delete_open"]
    /\ UNCHANGED <<local, models_file, issued, clock, last, returned, saved_model, delete_log,
                   loaded_models>>

\* delete_model line 155: open(self.models_file, 'w') truncates the document
DeleteOpen(c) ==
    /\ pc[c] = "delete_open"
    /\ models_file' = Partial
    /\ pc' = [pc EXCEPT ![c] = "delete_dump"]
    /\ UNCHANGED <<local, artifact_files, issued, clock,
                   last, returned, saved_model, delete_log, loaded_models>>

\* delete_model lines 153-158: filter the snapshot, json.dump, return True
\* (history: the log of the model_id becomes the one result True)
DeleteDump(c) ==
    /\ pc[c] = "delete_dump"
    /\ models_file' = json_dump(RemoveId(local[c].models, local[c].id))
    /\ delete_log' = [delete_log EXCEPT ![local[c].id] = <<TRUE>>]
    /\ pc' = [pc EXCEPT ![c] = "idle"]
    /\ local' = [local EXCEPT ![c] = NoCall]
    /\ UNCHANGED <<artifact_files, issued, clock, last, returned, saved_model, loaded_models>>

CallerSave == \E c \in Callers, a \in GoodArgs : SaveArtifact(c, a[1], a[2])

CallerSaveStep == \E c \in Callers : SaveRead(c) \/ SaveOpen(c) \/ SaveDump(c)

CallerDelete == \E c \in Callers, model_id \in CallIds : DeleteRead(c, model_id)

CallerDeleteStep == \E c \in Callers : DeleteRemove(c) \/ DeleteOpen(c) \/ DeleteDump(c)

NextConc == CallerSave \/ CallerSaveStep \/ CallerDelete \/ CallerDeleteStep

SpecConc == Init /\ [][NextConc]_vars

\* ---------------------------------------------------------------- properties

\* The records of the registry document, as a reader sees them.
Registry == load_model_registry(models_file)

RegistryIds == {Registry[k].model_id : k \in 1..Len(Registry)}

\* The model_ids of the records whose artifact file does not exist.
DanglingIds ==
    {Registry[k].model_id :
        k \in {j \in 1..Len(Registry) : artifact_files[Registry[j].file_path] = NoFile}}

\* C1: the model_ids the save_model calls have returned are pairwise distinct,
\* and no two records of the registry document share a model_id.
C1_UniqueModelIds ==
    /\ \A j, k \in 1..Len(returned) : j # k => returned[j] # returned[k]
    /\ \A j, k \in 1..Len(Registry) : j # k => Registry[j].model_id # Registry[k].model_id

\* Two saves have returned, with a successful delete of the first in between.
C1_Witness ==
    /\ Len(returned) = 2
    /\ delete_log[returned[1]] = <<TRUE>>
    /\ RegistryIds = {returned[2]}

\* C2: once save_model(A, M) has returned id, load_model(id) returns A, and keeps
\* returning A after any further save_model calls and delete_model calls on other
\* ids, until delete_model(id) is called.
C2_LoadReturnsSaved ==
    \A id \in Ids :
        saved_model[id] # None =>
load_model(id) = Return(saved_model[id])

\* A step that is a save_model call, and one that is a delete_model call.
SaveStep == last' # last /\ last'.op = "save"

DeleteStep(id) == last' # last /\ last'.op = "delete" /\ last'.id = id

\* C3: a save_model that fails while writing the artifact file leaves the registry
\* document as it was; a save_model that fails at either write leaves no record
\* for the generated id, and no record without an artifact file that was not
\* already there.
C3_FailedSaveLeavesNoRecord ==
    [][(SaveStep /\ last'.ret.raised) =>
          /\ last'.fault \in {"open_artifact", "write_artifact"} => models_file' = models_file
          /\ last'.id \notin RegistryIds'
          /\ DanglingIds' \subseteq DanglingIds]_vars

\* A save has failed while writing its artifact file, with a record in the registry.
C3_Witness ==
    /\ last.op = "save"
    /\ last.ret.raised
    /\ last.fault = "write_artifact"
    /\ artifact_files[FilePath(last.id)] = Partial
    /\ Len(Registry) >= 1

\* C4: a delete_model(id) that failed after one of its steps does not leave the
\* registry document holding the record of id with its artifact file gone.
C4_PartialDeleteLeavesNoDangling ==
    (last.op = "delete" /\ last.fault # NoFault) => last.id \notin DanglingIds

\* C5: after calls that ran one after the other, each to its end, every record of
\* the registry document has its artifact file at the record's file_path.
C5_EveryRecordHasItsFile ==
    \A k \in 1..Len(Registry) : artifact_files[Registry[k].file_path] # NoFile

\* A record is in the registry with its artifact, after another was deleted.
C5_Witness ==
    /\ \E k \in 1..Len(Registry) : artifact_files[Registry[k].file_path].kind = "pkl"
    /\ \E id \in Ids : delete_log[id] = <<TRUE>> /\ artifact_files[FilePath(id)] = NoFile

\* C6: a model_id goes absent -> saved -> deleted and no further: an identifier
\* that was generated and has no record never has one again, and a record that
\* stays in the registry document is not replaced by another with its model_id.
C6_RecordLifecycle ==
    [][\A id \in Ids :
          /\ (id \in issued /\ id \notin RegistryIds) => id \notin RegistryIds'
          /\ (id \in RegistryIds /\ id \in RegistryIds') =>
                 get_model_metadata(id)' = get_model_metadata(id)]_vars

\* One record was deleted, and a save made after it is in the registry.
C6_Witness ==
    /\ \E id \in Ids : delete_log[id] = <<TRUE>> /\ id \notin RegistryIds
    /\ last.op = "save" /\ ~last.ret.raised /\ last.id \in RegistryIds

\* C7: a record in the registry document keeps every field and leaves the
\* document only through delete_model of its own model_id, whatever the other
\* calls do and whether they succeed or fail.
C7_RecordsOnlyLeaveByDelete ==
    [][\A id \in Ids :
          (id \in RegistryIds /\ ~DeleteStep(id)) =>
              /\ id \in RegistryIds'
              /\ get_model_metadata(id)' = get_model_metadata(id)]_vars

\* C8: for an id save_model returned, the first delete_model(id) returns True and
\* leaves get_model_metadata(id) None, and the second returns False.
C8_DeleteTwice ==
    \A id \in ReturnedIds :
        /\ Len(delete_log[id]) >= 1 =>
               delete_log[id][1] = TRUE /\ get_model_metadata(id) = None
        /\ Len(delete_log[id]) >= 2 => delete_log[id][2] = FALSE

\* C9: once delete_model(id) has returned True, there is no artifact file of id
\* and the registry document has no record of id.
C9_DeletedIsGone ==
    \A id \in Ids :
        (\E k \in 1..Len(delete_log[id]) : delete_log[id][k] = TRUE) =>
            /\ artifact_files[FilePath(id)] = NoFile
            /\ id \notin RegistryIds

\* A delete has returned True, an earlier call on the same id having failed.
C9_Witness ==
    /\ last.op = "delete" /\ last.ret.val = TRUE
    /\ delete_log[last.id] = <<FALSE, TRUE>>

\* A caller finishes the rewrite of the registry document.
FinishesRewrite(c) == pc[c] \in {"save_dump", "delete_dump"} /\ pc'[c] = "idle"

\* C10: with interleaved callers the last writer wins: when a call finishes its
\* rewrite, the document holds none of the records that successful save_model
\* calls of other callers added after this call had read it.
C10_LastWriterWins ==
    [][\A c \in Callers :
          FinishesRewrite(c) => local[c].missed \cap RegistryIds' = {}]_vars

\* Two interleaved saves have both returned their ids, no delete was called on
\* either, and the document holds the record of only one of them.
C10_Witness ==
    /\ \A c \in Callers : pc[c] = "idle"
    /\ Len(returned) = 2
    /\ \A k \in 1..2 : saved_model[returned[k]] # None
    /\ Cardinality(RegistryIds \cap ReturnedIds) = 1

\* C11: load_model(id) raises the not-found error, and returns no object, whenever
\* the registry document has no record of id; so it does in every state after a
\* delete_model(id) that returned True.
C11_LoadNotFound ==
    /\ \A id \in Ids \cup {NoSuchId} :
           id \notin RegistryIds => load_model(id) = Raise("not found")
    /\ \A id \in Ids :
           (\E k \in 1..Len(delete_log[id]) : delete_log[id][k] = TRUE) =>
               load_model(id) = Raise("not found")
    /\ (last.op = "load" /\ last.id \notin RegistryIds) => last.ret = Raise("not found")

\* load_model was called on an id whose delete_model had returned True.
C11_Witness ==
    /\ last.op = "load"
    /\ last.id \in ReturnedIds
    /\ delete_log[last.id] = <<TRUE>>
    /\ last.ret = Raise("not found")

\* C12: load_model(id) for a record whose artifact file is missing or cannot be
\* unpickled raises the "Failed to load model" error, which is not the not-found
\* error, and the record is still in the registry document after the call.
C12_LoadStorageError ==
    /\ \A id \in RegistryIds :
           artifact_files[FilePath(id)].kind # "pkl" =>
               /\ load_model(id) = Raise("Failed to load model")
               /\ load_model(id) # load_model(NoSuchId)
    /\ (last.op = "load" /\ last.fault # NoFault) =>
           /\ last.ret = Raise("Failed to load model")
           /\ last.ret # load_model(NoSuchId)
           /\ last.id \in RegistryIds
    /\ (last.op = "load" /\ last.id \in DanglingIds) =>
           last.ret = Raise("Failed to load model")

\* load_model was called on a record whose artifact file a failed delete_model
\* had removed.
C12_Witness ==
    /\ last.op = "load"
    /\ last.id \in DanglingIds
    /\ delete_log[last.id] = <<FALSE>>
    /\ last.ret = Raise("Failed to load model")

\* C13: a registry document that cannot be decoded is reported to the caller as
\* an error and is not read as an empty registry: a save_model called in that
\* state raises and leaves the document as it was, instead of replacing it by a
\* document that holds only the new record.
C13_UndecodableDocumentIsSurfaced ==
    [][(models_file.kind # "json" /\ SaveStep) =>
          /\ last'.ret.raised
          /\ models_file' = models_file]_vars

\* A step that is a get_model_metadata call.
GetStep == last' # last /\ last'.op = "get"

C15_ListNewestFirst ==
    \A model_type \in Filters :
        LET listed == list_models(model_type)
        IN  \A j, k \in 1..Len(listed) :
                \A t1, t2 \in ListTimes :
                    (/\ listed[j].created_at = isoformat(t1)
                     /\ listed[k].created_at = isoformat(t2)
                     /\ t1 < t2) => k < j

\* list_models() has returned three records created at three different times,
\* which the document holds oldest last but one: t2, t3, t1.
C15_Witness ==
    /\ last.op = "list"
    /\ Len(Registry) = 3
    /\ Registry[1].created_at = isoformat(1)
    /\ Registry[2].created_at = isoformat(2)
    /\ Registry[3].created_at = isoformat(0)
    /\ last.ret.val = <<Registry[2], Registry[1], Registry[3]>>

\* Two Python strings are equal ignoring case.
SameLetter(c, d) ==
    \/ c = d
    \/ {c, d} \in {{"L", "l"}, {"R", "r"}, {"U", "u"}}

EqualIgnoringCase(a, b) ==
    /\ Len(a) = Len(b)
    /\ \A k \in 1..Len(a) : SameLetter(a[k], b[k])

\* The records a list holds, and whether it holds each once.
Listed(listed) == {listed[k] : k \in 1..Len(listed)}

NoRepeat(listed) == \A j, k \in 1..Len(listed) : j # k => listed[j] # listed[k]

\* C16: list_models(model_type=T) returns, for every string T, the records whose
\* model_type equals T ignoring case, each once and no other; list_models()
\* returns every record of the registry once.
C16_ListFilter ==
    /\ \A model_type \in Filters \ {NoFilter} :
           /\ Listed(list_models(model_type)) =
                  {m \in Listed(Registry) : EqualIgnoringCase(m.model_type, model_type.val)}
           /\ NoRepeat(list_models(model_type))
    /\ Listed(list_models(NoFilter)) = Listed(Registry)
    /\ NoRepeat(list_models(NoFilter))

\* C17: every call of a computation function ends by returning a mapping that
\* has a boolean success, whatever the input; no exception leaves the function;
\* a mapping with success false has an error string.
C17_ComputationsReturnSuccess ==
    last.op \in DOMAIN Functions =>
        /\ ~last.ret.raised
        /\ "success" \in DOMAIN last.ret.val
        /\ last.ret.val.success \in BOOLEAN
        /\ ~last.ret.val.success =>
               "error" \in DOMAIN last.ret.val /\ last.ret.val.error # <<>>

\* A call has returned the mapping its except handler built from an exception.
C17_Witness ==
    /\ last.op = "analyze_custom_loan"
    /\ last.id \in 1..Len(analyze_custom_loan.checks)
    /\ analyze_custom_loan.checks[last.id].kind = "raise"
    /\ ~last.ret.raised
    /\ last.ret.val.success = FALSE

\* A step that constructs a ModelStorage.
ConstructStep == last'.op = "init"

\* C18: constructing a ModelStorage creates the storage directory when it is
\* absent and writes the empty registry document only when there is none; a
\* document that exists is left as it is, with the artifact files, so what was
\* saved through an earlier instance is found through the new one.
C18_ConstructorKeepsRegistry ==
    [][ConstructStep =>
          /\ models_file' # NoDir
          /\ models_file \in {NoDir, NoFile} => models_file' = json_dump(<<>>)
          /\ models_file \notin {NoDir, NoFile} => models_file' = models_file
          /\ artifact_files' = artifact_files
          /\ \A id \in ReturnedIds :
                 /\ get_model_metadata(id)' = get_model_metadata(id)
                 /\ load_model(id)' = load_model(id)]_vars

\* A second instance was constructed on a directory whose document holds a
\* record saved through the first.
C18_Witness ==
    /\ last.op = "init"
    /\ Len(returned) >= 1
    /\ returned[1] \in RegistryIds
    /\ load_model(returned[1]) = Return(saved_model[returned[1]])

\* The training data of a metadata argument, and the record a step leaves for
\* the model_id of its call.
TrainingData(metadata) == metadata_get(metadata, "training_data", <<>>)

NewRecord == FindRecord(load_model_registry(models_file'), last'.id)

C20_NoDeduplication ==
    [][\A a \in GoodArgs :
          save_model(a[1], a[2], NoFault) =>
              /\ ~last'.ret.raised
              /\ last'.id \notin RegistryIds
              /\ NewRecord # None
              /\ load_model_registry(models_file') = Append(Registry, NewRecord)
              /\ NewRecord.training_data_hash = _hash_data(TrainingData(a[2]))]_vars

\* Two saves with the same training data have left two records, of different
\* model_ids and equal hashes.
C20_Witness ==
    /\ Len(Registry) = 2
    /\ Registry[1].model_id # Registry[2].model_id
    /\ Registry[1].training_data_hash = Registry[2].training_data_hash
    /\ Registry[1].training_data_hash # <<>>
    /\ last.op = "save" /\ ~last.ret.raised

\* C21: a save_model that returns leaves the registry document one record
\* longer, the new record last and the records it had unchanged in content and
\* order; it creates the artifact file of the new model_id, which did not exist,
\* and leaves every other artifact file as it was.
C21_SaveFrame ==
    [][(SaveStep /\ ~last'.ret.raised) =>
          LET before == Registry
              after == load_model_registry(models_file')
              path == FilePath(last'.id)
          IN  /\ Len(after) = Len(before) + 1
              /\ \A k \in 1..Len(before) : after[k] = before[k]
              /\ after[Len(after)].model_id = last'.id
              /\ after[Len(after)].file_path = path
              /\ artifact_files[path] = NoFile
              /\ artifact_files'[path].kind = "pkl"
              /\ \A p \in Paths \ {path} : artifact_files'[p] = artifact_files[p]]_vars

\* A save has returned with an earlier record in the document: the new record
\* is behind it and both artifact files exist.
C21_Witness ==
    /\ last.op = "save" /\ ~last.ret.raised
    /\ Len(Registry) = 2
    /\ Registry[2].model_id = last.id
    /\ \A k \in 1..2 : artifact_files[Registry[k].file_path].kind = "pkl"

\* C22: delete_model(id) of an id that has a record leaves the document holding
\* the other records, unchanged in content and order, and the directory without
\* the artifact file of id, every other artifact file as it was; delete_model of
\* an id that has no record returns False, raises nothing, and leaves the
\* document and every artifact file as they were.
C22_DeleteFrame ==
    [][\A id \in Ids \cup {NoSuchId} :
          DeleteStep(id) =>
              IF id \in RegistryIds
              THEN /\ load_model_registry(models_file') =
                          SelectSeq(Registry, LAMBDA m : m.model_id # id)
                   /\ artifact_files'[FilePath(id)] = NoFile
                   /\ \A p \in Paths \ {FilePath(id)} : artifact_files'[p] = artifact_files[p]
              ELSE /\ last'.ret = Return(FALSE)
                   /\ models_file' = models_file
                   /\ artifact_files' = artifact_files]_vars

\* The first of two records was deleted: the second is the document, with its
\* artifact file.
C22_Witness ==
    /\ last.op = "delete" /\ last.ret = Return(TRUE)
    /\ Len(returned) = 2 /\ last.id = returned[1]
    /\ RegistryIds = {returned[2]}
    /\ artifact_files[FilePath(returned[1])] = NoFile
    /\ artifact_files[FilePath(returned[2])].kind = "pkl"

\* C23: delete_model(id) of an id that has a record removes the artifact file
\* before it rewrites the registry document: a call that fails at the rewrite
\* has already removed the file. An artifact file that is already missing does
\* not fail the call: unless the rewrite fails, the record leaves the document
\* and the call returns True.
C23_DeleteOrder ==
    [][\A id \in Ids :
          (DeleteStep(id) /\ id \in RegistryIds) =>
              /\ last'.fault \in {"open_registry", "write_registry"} =>
                     artifact_files'[FilePath(id)] = NoFile
              /\ models_file' # models_file => artifact_files'[FilePath(id)] = NoFile
              /\ (/\ artifact_files[FilePath(id)] = NoFile
                  /\ last'.fault \notin {"open_registry", "write_registry"}) =>
                     /\ last'.ret = Return(TRUE)
                     /\ id \notin RegistryIds'
                     /\ artifact_files' = artifact_files]_vars

\* A delete that failed at the rewrite had removed the artifact file and left
\* the record; the next delete of the same id has returned True.
C23_Witness ==
    /\ last.op = "delete" /\ last.fault = NoFault
    /\ last.id \in ReturnedIds
    /\ delete_log[last.id] = <<FALSE, TRUE>>
    /\ last.id \notin RegistryIds
    /\ artifact_files[FilePath(last.id)] = NoFile

\* C27: a delete_model that returns False leaves the registry document and
\* every artifact file as they were before the call.
C27_FalseDeleteChangesNothing ==
    [][\A id \in Ids \cup {NoSuchId} :
          (DeleteStep(id) /\ last'.ret = Return(FALSE)) =>
              /\ models_file' = models_file
              /\ artifact_files' = artifact_files]_vars

\* C28: a save_model that fails at the rewrite of the registry document leaves
\* the document holding the records it held, every model that could be loaded
\* still loadable, and in the directory only one more file, the artifact file
\* of the failed call.
C28_FailedRewriteKeepsRecords ==
    [][(SaveStep /\ last'.fault \in {"open_registry", "write_registry"}) =>
          /\ load_model_registry(models_file') = Registry
          /\ \A id \in Ids : ~load_model(id).raised => load_model(id)' = load_model(id)
          /\ artifact_files'[FilePath(last'.id)].kind = "pkl"
          /\ \A p \in Paths \ {FilePath(last'.id)} :
                 artifact_files'[p] = artifact_files[p]]_vars

\* C29: with interleaved callers, a model_id whose delete_model has returned
\* True has no record in the registry document from then on.
C29_DeletedNeverReappears ==
    \A id \in Ids : delete_log[id] # <<>> => id \notin RegistryIds

\* A step that is a call of the predictor's handler op.
PredictorStep(op) == last' # last /\ last'.op = op

C26_TooFewSamples ==
    [][\A samples \in SampleCounts :
          (/\ PredictorStep("train_and_save_regression_model")
           /\ last'.id = samples
           /\ samples < 5) =>
              /\ ~last'.ret.raised
              /\ last'.ret.val.success = FALSE
              /\ models_file' = models_file
              /\ artifact_files' = artifact_files]_vars

\* A call with 4 samples has returned the failure mapping of the sample count,
\* with a record in the registry.
C26_Witness ==
    /\ last.op = "train_and_save_regression_model"
    /\ last.id = 4
    /\ last.ret = Return([success |-> FALSE, error |-> <<"Need at least 5 data points">>])
    /\ Len(Registry) >= 1

\* C30: predict_with_saved_model(id) for an id that has no record in the
\* registry document returns the not-found failure mapping, whatever
\* loaded_models holds.
C30_PredictUnknownIsNotFound ==
    [][\A id \in Ids \cup {NoSuchId} :
          (/\ PredictorStep("predict_with_saved_model")
           /\ last'.id = id
           /\ id \notin RegistryIds) =>
              last'.ret = Return([success |-> FALSE, error |-> <<"Model with ID not found">>])]_vars

====
